---- MODULE Spec2Model ----
(***************************************************************************)
(* Model of the Ownit design agent: the LangGraph state machine of         *)
(* app/src/agent/graph.py (call_model, custom_tool_node,                   *)
(* call_finishing_model, production_node and the four routers) run by the  *)
(* LangGraph step loop on one checkpointed thread, with the user turns of   *)
(* app/src/streamlit.py as the environment.                                *)
(*                                                                         *)
(* One action is one superstep of the graph: the node's body followed by   *)
(* the conditional edge that leaves it (the router is evaluated on the     *)
(* state the node has just written).                                       *)
(***************************************************************************)
EXTENDS Integers, Sequences, FiniteSets, TLC

(***************************************************************************)
(* Bounds of the model.                                                    *)
(***************************************************************************)
\* create_image is requested with image_number in 1..MaxImageNumber.
MaxImageNumber == 3
\* The largest recursion_limit a run is given.  streamlit.py passes none, so
\* the deployed value is LangGraph's default, 25; a run of the model gets
\* RecursionLimit - 1 or RecursionLimit, one even and one odd, so that the
\* flagged step can fall on either node of the call_model/tools loop.
RecursionLimit == 4
\* The history that is explored: a node runs only while the thread holds at
\* most this many messages, and the user submits a new prompt only while it
\* holds fewer.
MaxHistory == 7

\* After a run that failed, which leaves the session's list behind the
\* thread's, the user submits a new prompt only while the thread holds at most
\* this many messages.
MaxHistoryAfterFailure == MaxHistory - 4

\* The longest response body, in tokens, that is post-processed.
MaxBodyLen == 5

\* Browser sessions the server holds, and uuid4 values drawn in all.
MaxSessions == 3
MaxUuids == 4

(***************************************************************************)
(* Program constants.                                                      *)
(***************************************************************************)
\* graph.py: "if state.image_count >= 3" in the three routers.
ImageLimit == 3

VARIABLES
    messages,      \* State.messages of the thread (checkpointed)
    email,         \* State.email: <<>> is None, <<e>> is the string e
    artifacts,     \* State.artifacts
    image_count,   \* State.image_count
    node,          \* the node the step loop runs next, or how the run stopped
    step,          \* number of the superstep that runs `node`
    recursion_limit,   \* config["recursion_limit"] of the current run
    response,      \* tool calls of the raw response of the last model call
    tool_outcomes, \* what the tools and helpers of the last step did
    paths,         \* the file paths the last step handed to tools and helpers
    sessions,      \* st.session_state and script position of each browser session
    uuids,         \* how many uuid4 values have been drawn
    runs,          \* the graph runs in flight: session and thread_id of each
    st_messages,   \* st.session_state.messages of the session of the thread
    st_artifacts,  \* st.session_state.artifacts
    body,          \* response.content of a model response, as tokens
    cleaned,       \* content and internal_plan of its cleaned_response
    decision,      \* the last router evaluation of the run: router, result, count
    observed_limit,    \* a router has evaluated with image_count >= ImageLimit
    routed_finishing   \* a router has routed the thread to call_finishing_model

vars == <<messages, email, artifacts, image_count, node, step, recursion_limit,
          response, tool_outcomes, paths, decision, observed_limit,
          routed_finishing, sessions, uuids, runs, st_messages, st_artifacts,
          body, cleaned>>

st_vars == <<st_messages, st_artifacts>>

plan_vars == <<body, cleaned>>

session_vars == <<sessions, uuids, runs>>

graph_vars == <<messages, email, artifacts, image_count, node, step,
                recursion_limit, response, tool_outcomes, paths, decision,
                observed_limit, routed_finishing, st_messages, st_artifacts>>

(***************************************************************************)
(* Values.                                                                 *)
(***************************************************************************)
None == <<>>
Some(x) == <<x>>

Emails == {"ana@example.com"}

ImageNumbers == 1..MaxImageNumber

\* A tool call as the model emits it: args is None or Some(n), the one
\* integer argument the graph reads (image_number, design_number); strs are
\* its string arguments that end up in file names (size and product_type of
\* execute_production_file), each string as the list of its parts between
\* "/" separators.
ToolCall(nm, a) == [name |-> nm, args |-> a, strs |-> <<>>]

create_image_prompt == ToolCall("create_image_prompt", None)
create_image(n) == ToolCall("create_image", Some(n))
finalize_design == ToolCall("finalize_design", None)
execute_production_file(a) ==
    [name |-> "execute_production_file", args |-> a,
     strs |-> IF a = None THEN <<>> ELSE <<<<"M">>, <<"LISO">>>>]
\* The production call with a product_type that climbs out of the directory.
execute_production_file_dotdot ==
    [name |-> "execute_production_file", args |-> Some(1),
     strs |-> <<<<"M">>, <<"x", "..", "..", "eve@example.com", "design-1">>>>]
foo == ToolCall("foo", None)

\* tools.py: TOOLS, the registry custom_tool_node resolves names against.
TOOLS == {"create_image_prompt", "create_image", "convert_black_to_transparent"}

convert_black_to_transparent ==
    [name |-> "convert_black_to_transparent", args |-> None,
     strs |-> <<<<"a", "b", "design-2.png">>, <<"out.png">>>>]

\* The tool-call lists a response of the main model may carry (graph.py 44:
\* bound to TOOLS, told by SYSTEM_PROMPT to call finalize_design, and free
\* to name a tool that does not exist): none, any single call, and pairs
\* that put a second call behind a dispatched one.
SingleCalls ==
    {create_image_prompt, convert_black_to_transparent, finalize_design, foo}
        \cup {create_image(n) : n \in ImageNumbers}

PairCalls ==
    {<<c, d>> : c \in {create_image_prompt, create_image(MaxImageNumber)},
                d \in {create_image(1), finalize_design, foo}}

ModelToolCalls == {<<>>} \cup {<<c>> : c \in SingleCalls} \cup PairCalls

\* The tool-call lists a response of the finishing model may carry (graph.py
\* 97-98: bound to execute_production_file and finalize_design; the user may
\* still ask it for another image).
FinishingToolCalls ==
    {<<>>, <<execute_production_file(Some(1))>>,
     <<execute_production_file(None)>>, <<finalize_design>>,
     <<create_image(1)>>,
     <<finalize_design, execute_production_file(Some(1))>>,
     <<execute_production_file_dotdot>>,
     <<execute_production_file(Some(MaxImageNumber))>>}

\* Message contents, by what the code puts there.
TextContent == [kind |-> "text", n |-> 0]
FallbackContent == [kind |-> "fallback", n |-> 0]

HumanMessage == [type |-> "human", id |-> None, content |-> TextContent,
                 tool_calls |-> <<>>, tool_call_id |-> None]

AIMessage(content, calls) ==
    [type |-> "ai", id |-> None, content |-> content,
     tool_calls |-> calls, tool_call_id |-> None]

ToolMessage(content, call_id) ==
    [type |-> "tool", id |-> None, content |-> content,
     tool_calls |-> <<>>, tool_call_id |-> Some(call_id)]

Last(s) == s[Len(s)]

\* The model's tool calls get their call ids from the provider: here the
\* position of the assistant message and the position in its list.
WithIds(calls, pos) ==
    [i \in 1..Len(calls) |->
        [name |-> calls[i].name, args |-> calls[i].args,
         strs |-> calls[i].strs, id |-> <<pos, i>>]]

(***************************************************************************)
(* state.py: the add_messages reducer of State.messages.  A message whose  *)
(* id is already in the list replaces that entry, any other is appended;   *)
(* a message without id gets a fresh one.                                  *)
(***************************************************************************)
RECURSIVE add_messages(_, _)
add_messages(left, right) ==
    IF right = <<>> THEN left
    ELSE LET m == Head(right)
             same == {i \in 1..Len(left) : m.id # None /\ left[i].id = m.id}
         IN  IF same # {}
             THEN add_messages(
                    [left EXCEPT ![CHOOSE i \in same : TRUE] = m], Tail(right))
             ELSE add_messages(
                    Append(left, IF m.id = None
                                 THEN [m EXCEPT !.id = Some(Len(left) + 1)]
                                 ELSE m),
                    Tail(right))

(***************************************************************************)
(* The step loop (langgraph Pregel loop, compiled at graph.py 444-447).    *)
(* Supersteps of a run are numbered from 0 (START); a node may run at      *)
(* steps 1..recursion_limit; the managed value State.is_last_step          *)
(* (state.py 24) is true at the step before the last permitted one, and a  *)
(* run that still has a node to run after the last permitted step is       *)
(* stopped with GraphRecursionError.                                       *)
(***************************************************************************)
RecursionLimits == {RecursionLimit - 1, RecursionLimit}

is_last_step == step = recursion_limit - 1

\* Where the loop goes after a node whose edge names `target`.
NextNode(target) ==
    IF target = "__end__" THEN "__end__"
    ELSE IF step + 1 > recursion_limit THEN "out_of_steps"
    ELSE target

(***************************************************************************)
(* graph.py 38-89: call_model, and 92-154: call_finishing_model.  `calls`  *)
(* are the tool calls of the model's response, `pos` the position the      *)
(* message takes in the history, `last` is state.is_last_step.  The value  *)
(* is the "messages" update the node returns.                              *)
(***************************************************************************)
\* Mutant of call_model: the is_last_step guard of graph.py 79-87 is dropped.
call_model_keeps_tool_calls(calls, pos, last) ==
    <<AIMessage(TextContent, WithIds(calls, pos))>>

call_model(calls, pos, last) ==
    LET cleaned_response == AIMessage(TextContent, WithIds(calls, pos))
    IN  IF last /\ cleaned_response.tool_calls # <<>>
        THEN <<AIMessage(FallbackContent, <<>>)>>
        ELSE <<cleaned_response>>

call_finishing_model(calls, pos, last) ==
    LET cleaned_response == AIMessage(TextContent, WithIds(calls, pos))
    IN  IF last /\ cleaned_response.tool_calls # <<>>
        THEN <<AIMessage(FallbackContent, <<>>)>>
        ELSE <<cleaned_response>>

(***************************************************************************)
(* graph.py 157-249: custom_tool_node.                                     *)
(***************************************************************************)
\* What the outside world does to one dispatched call: the tool returns or
\* raises; when it returns, the written file can be read back or not, and
\* the upload gives a URL, gives nothing, or raises.
ToolOutcomes ==
    [run : {"ok"}, readable : BOOLEAN, upload : {"url", "none", "raise"}]
        \cup {[run |-> "raise", readable |-> FALSE, upload |-> "none"]}

\* What can happen to one call of the batch: a call that the loop skips
\* (graph.py 179-180) runs nothing; create_image_prompt returns or raises
\* and has no file (216); create_image has every outcome.
NotRun == [run |-> "skipped", readable |-> FALSE, upload |-> "none"]

OutcomesOf(call) ==
    IF call.name = "create_image" THEN ToolOutcomes
    ELSE IF call.name = "create_image_prompt"
    THEN {out \in ToolOutcomes : ~out.readable /\ out.upload = "none"}
    ELSE {NotRun}

\* The outcomes of the calls of a batch, one per call.
BatchOutcomes(calls) ==
    {outs \in [1..Len(calls) -> ToolOutcomes \cup {NotRun}] :
        \A i \in 1..Len(calls) : outs[i] \in OutcomesOf(calls[i])}

\* graph.py 195: args.get("image_number", 1)
image_number_of(call) == IF call.args = None THEN 1 ELSE call.args[1]

\* One iteration of the loop of graph.py 175-244 on tool call `call` with
\* outcome `out`; acc holds tool_messages, new_artifacts, new_image_count.
dispatch_call(call, out, acc) ==
    IF call.name \notin {"create_image", "create_image_prompt"}
    THEN acc                                                  \* 179-180
    ELSE IF call.name \notin TOOLS
    THEN [acc EXCEPT !.tool_messages =                         \* 183-191
            Append(@, ToolMessage([kind |-> "not_found", n |-> 0], call.id))]
    ELSE
      LET image_num == image_number_of(call)
          counted == IF call.name = "create_image"             \* 194-198
                     THEN [acc EXCEPT !.new_image_count = image_num]
                     ELSE acc
      IN  IF out.run = "raise"
          THEN [counted EXCEPT !.tool_messages =               \* 237-243
                  Append(@, ToolMessage([kind |-> "error_executing", n |-> 0],
                                        call.id))]
          ELSE IF call.name = "create_image"
          THEN [counted EXCEPT                                 \* 207-236
                  !.tool_messages =
                      Append(@, ToolMessage([kind |-> "path", n |-> image_num],
                                            call.id)),
                  !.new_artifacts =
                      IF out.readable
                      THEN Append(@, [type |-> "image", b64 |-> image_num])
                      ELSE @]
          ELSE [counted EXCEPT !.tool_messages =               \* 207-214
                  Append(@, ToolMessage([kind |-> "prompt", n |-> 0], call.id))]

\* The mutation in which the loop takes the calls from the last to the first.
RECURSIVE dispatch_from_reversed(_, _, _, _)
dispatch_from_reversed(calls, outs, i, acc) ==
    IF i > Len(calls) THEN acc
    ELSE dispatch_call(calls[i], outs[i],
                       dispatch_from_reversed(calls, outs, i + 1, acc))

RECURSIVE dispatch_from(_, _, _, _)
dispatch_from(calls, outs, i, acc) ==
    IF i > Len(calls) THEN acc
    ELSE dispatch_from(calls, outs, i + 1, dispatch_call(calls[i], outs[i], acc))

\* The mutation in which image_count is incremented once per create_image
\* call instead of being set to the number the model gave.
custom_tool_node_increments(msgs, arts, count, outs) ==
    LET calls == Last(msgs).tool_calls
        acc == dispatch_from(calls, outs, 1,
                  [tool_messages |-> <<>>, new_artifacts |-> <<>>,
                   new_image_count |-> count])
    IN  [messages |-> add_messages(msgs, msgs \o acc.tool_messages),
         artifacts |-> arts \o acc.new_artifacts,
         image_count |-> count + Cardinality({i \in 1..Len(calls) :
                                        calls[i].name = "create_image"})]

\* The mutation in which the node returns the new artifacts only.
custom_tool_node_only_new_artifacts(msgs, arts, count, outs) ==
    LET acc == dispatch_from(Last(msgs).tool_calls, outs, 1,
                  [tool_messages |-> <<>>, new_artifacts |-> <<>>,
                   new_image_count |-> count])
    IN  [messages |-> add_messages(msgs, msgs \o acc.tool_messages),
         artifacts |-> acc.new_artifacts,
         image_count |-> acc.new_image_count]

\* The mutation in which the node, given nothing to dispatch, returns empty
\* artifacts and a zero image_count instead of an empty update.
custom_tool_node_pass_resets(msgs, arts, count, outs) ==
    LET acc == dispatch_from(Last(msgs).tool_calls, outs, 1,
                  [tool_messages |-> <<>>, new_artifacts |-> <<>>,
                   new_image_count |-> count])
    IN  IF Last(msgs).type # "ai" \/ Last(msgs).tool_calls = <<>>
        THEN [messages |-> msgs, artifacts |-> <<>>, image_count |-> 0]
        ELSE [messages |-> add_messages(msgs, msgs \o acc.tool_messages),
              artifacts |-> arts \o acc.new_artifacts,
              image_count |-> acc.new_image_count]

\* The state after the node: its update merged into the state (messages by
\* add_messages, artifacts and image_count overwritten).
custom_tool_node(msgs, arts, count, outs) ==
    LET last_message == Last(msgs)
    IN  IF last_message.type # "ai" \/ last_message.tool_calls = <<>>
        THEN [messages |-> msgs, artifacts |-> arts, image_count |-> count]
        ELSE
          LET acc == dispatch_from(last_message.tool_calls, outs, 1,
                        [tool_messages |-> <<>>, new_artifacts |-> <<>>,
                         new_image_count |-> count])
          IN  [messages |-> add_messages(msgs, msgs \o acc.tool_messages),
               artifacts |-> arts \o acc.new_artifacts,
               image_count |-> acc.new_image_count]

(***************************************************************************)
(* File paths.  A path is the list of its components.                      *)
(***************************************************************************)
\* The string a \o b for strings given as lists of parts between "/".
Glue(a, b) ==
    SubSeq(a, 1, Len(a) - 1) \o <<a[Len(a)] \o b[1]>> \o Tail(b)

\* os.path.join(base, file): an absolute file (first part empty) replaces
\* the base.
join(base, file) == IF file[1] = "" THEN file ELSE base \o file

\* str.lower() on the values the prompts name.
lower_part(c) ==
    CASE c = "M" -> "m"
      [] c = "LISO" -> "liso"
      [] OTHER -> c

lower(str) == [i \in 1..Len(str) |-> lower_part(str[i])]

\* graph.py 166-168 and 268-269: base_path = images/<email or unknown_user>
base_path(mail) ==
    <<"images", IF mail = None THEN "unknown_user" ELSE mail[1]>>

\* graph.py 197: the output path custom_tool_node gives create_image.
create_image_output_path(call, mail) ==
    join(base_path(mail),
         <<"design-" \o ToString(image_number_of(call)) \o ".png">>)

\* os.path.basename
basename(path) == <<path[Len(path)]>>

\* graph.py 200-204: the rewrite of image_path and output_path of a
\* convert_black_to_transparent call.
sandboxed(path, mail) == join(base_path(mail), basename(path))

\* The paths one step of custom_tool_node hands to tools and helpers, for
\* the calls that get past graph.py 179-180: the output path of a
\* create_image call (to the tool, then to open and to upload_to_gcs) and
\* the rewritten paths of a convert_black_to_transparent call.
custom_tool_paths(msgs, mail) ==
    LET calls == Last(msgs).tool_calls
        dispatched == {k \in 1..Len(calls) :
                          calls[k].name \in {"create_image",
                                             "create_image_prompt"}}
    IN  {create_image_output_path(calls[i], mail) :
            i \in {k \in dispatched : calls[k].name = "create_image"}}
        \cup UNION {{sandboxed(calls[i].strs[1], mail),
                     sandboxed(calls[i].strs[2], mail)} :
                       i \in {k \in dispatched :
                          calls[k].name = "convert_black_to_transparent"}}

\* graph.py 276-288: the input and output paths of production_node.
production_size(call) ==
    IF call.strs = <<>> THEN <<"talle-desconocido">> ELSE lower(call.strs[1])

production_type(call) ==
    IF call.strs = <<>> THEN <<"tipo-desconocido">> ELSE lower(call.strs[2])

local_input_path(call, mail) ==
    join(base_path(mail), <<"design-" \o ToString(call.args[1]) \o ".png">>)

local_output_path(call, mail) ==
    join(base_path(mail),
         Glue(Glue(Glue(Glue(<<"talle-">>, production_size(call)), <<"-">>),
                   production_type(call)), <<".png">>))

\* The paths production_node hands to convert_black_to_transparent and
\* upload_to_gcs (graph.py 292, 296): none when it returns early or the
\* design number is missing.
production_paths(msgs, mail) ==
    LET last_message == Last(msgs)
    IN  IF \/ last_message.type # "ai"
           \/ last_message.tool_calls = <<>>
           \/ last_message.tool_calls[1].name # "execute_production_file"
           \/ last_message.tool_calls[1].args = None
        THEN {}
        ELSE {local_input_path(last_message.tool_calls[1], mail),
              local_output_path(last_message.tool_calls[1], mail)}

(***************************************************************************)
(* graph.py 252-321: production_node.                                      *)
(***************************************************************************)
ProductionOutcomes ==
    [convert : {"ok", "raise"}, upload : {"url", "none", "raise"}]

\* The mutation in which an upload that returns no URL is not an error.
production_node_accepts_no_url(msgs, arts, out) ==
    LET tool_call == Last(msgs).tool_calls[1]
        content ==
            IF tool_call.args = None
            THEN [kind |-> "error_design_number_missing", n |-> 0]
            ELSE IF out.convert = "raise"
            THEN [kind |-> "error_convert", n |-> tool_call.args[1]]
            ELSE IF out.upload = "raise"
            THEN [kind |-> "error_upload", n |-> tool_call.args[1]]
            ELSE [kind |-> "url", n |-> tool_call.args[1]]
    IN  [messages |-> add_messages(msgs,
                         msgs \o <<ToolMessage(content, tool_call.id)>>),
         artifacts |-> arts]

\* The mutation in which the node returns an empty artifacts list.
production_node_drops_artifacts(msgs, arts, out) ==
    [messages |-> add_messages(msgs,
         msgs \o <<ToolMessage([kind |-> "url", n |-> 0],
                               Last(msgs).tool_calls[1].id)>>),
     artifacts |-> <<>>]

production_node(msgs, arts, out) ==
    LET last_message == Last(msgs)
    IN  IF \/ last_message.type # "ai"
           \/ last_message.tool_calls = <<>>
           \/ last_message.tool_calls[1].name # "execute_production_file"
        THEN [messages |-> msgs, artifacts |-> arts]
        ELSE
          LET tool_call == last_message.tool_calls[1]
              content ==
                  IF tool_call.args = None
                  THEN [kind |-> "error_design_number_missing", n |-> 0]
                  ELSE IF out.convert = "raise"
                  THEN [kind |-> "error_convert", n |-> tool_call.args[1]]
                  ELSE IF out.upload = "raise"
                  THEN [kind |-> "error_upload", n |-> tool_call.args[1]]
                  ELSE IF out.upload = "none"
                  THEN [kind |-> "error_no_public_url", n |-> tool_call.args[1]]
                  ELSE [kind |-> "url", n |-> tool_call.args[1]]
              tool_messages == <<ToolMessage(content, tool_call.id)>>
          IN  [messages |-> add_messages(msgs, msgs \o tool_messages),
               artifacts |-> arts]

(***************************************************************************)
(* graph.py 324-388: the routers.                                          *)
(***************************************************************************)
\* Mutant of route_entry: the image limit is not tested at entry.
route_entry_ignores_count(count) == "call_model"

\* The mutation in which the entry tests the limit with > instead of >=.
route_entry_above_limit(count) ==
    IF count > ImageLimit THEN "call_finishing_model" ELSE "call_model"

route_entry(count) ==
    IF count >= ImageLimit THEN "call_finishing_model" ELSE "call_model"

route_model_output(msgs, count) ==
    LET last_message == Last(msgs)
    IN  IF last_message.type # "ai" \/ last_message.tool_calls = <<>>
        THEN "__end__"
        ELSE IF count >= ImageLimit THEN "call_finishing_model"
        ELSE IF last_message.tool_calls[1].name = "finalize_design"
        THEN "call_finishing_model"
        ELSE "tools"

\* Mutant of route_after_tools: the limit is tested with > for >=.
route_after_tools_above_limit(count) ==
    IF count > ImageLimit THEN "call_finishing_model" ELSE "call_model"

route_after_tools(count) ==
    IF count >= ImageLimit THEN "call_finishing_model" ELSE "call_model"

\* Mutant of route_finishing_model: every tool call is taken for the
\* production call.
route_finishing_model_any_call(msgs) ==
    LET last_message == Last(msgs)
    IN  IF last_message.type # "ai" \/ last_message.tool_calls = <<>>
        THEN "__end__"
        ELSE "production_node"

route_finishing_model(msgs) ==
    LET last_message == Last(msgs)
    IN  IF last_message.type # "ai" \/ last_message.tool_calls = <<>>
        THEN "__end__"
        ELSE IF last_message.tool_calls[1].name = "execute_production_file"
        THEN "production_node"
        ELSE "call_finishing_model"

(***************************************************************************)
(* The state machine.                                                      *)
(***************************************************************************)
\* The mutation in which every session gets the same thread_id.
uuid4_same_for_all(drawn) == 1

\* uuid.uuid4(), given how many were drawn before: a value never drawn.
uuid4(drawn) == drawn + 1

NoDecision == [router |-> "none", to |-> "none", count |-> 0]

Sessions == 1..MaxSessions

\* A browser tab that has not connected yet: no session state.
NoSession == [script |-> "closed", thread_id |-> None]

Init ==
    /\ messages = <<>>
    /\ email = None
    /\ artifacts = <<>>
    /\ image_count = 0
    /\ node = "idle"
    /\ step = 0
    /\ recursion_limit = RecursionLimit
    /\ response = <<>>
    /\ tool_outcomes = <<>>
    /\ paths = {}
    /\ decision = NoDecision
    /\ observed_limit = FALSE
    /\ routed_finishing = FALSE
    /\ sessions = [s \in Sessions |-> NoSession]
    /\ uuids = 0
    /\ runs = <<>>
    /\ st_messages = <<>>
    /\ st_artifacts = <<>>
    /\ body = <<>>
    /\ cleaned = None

\* The conditional edge leaving a node: `router` gave `target` on the state
\* the node wrote (count is the image_count it read); watched says whether
\* the router is one of the three that test the image limit.
Route(router, target, count, watched) ==
    /\ decision' = [router |-> router, to |-> target, count |-> count]
    /\ node' = NextNode(target)
    /\ step' = step + 1
    /\ observed_limit' = (observed_limit \/ (watched /\ count >= ImageLimit))
    /\ routed_finishing' = (routed_finishing \/ target = "call_finishing_model")
    /\ UNCHANGED st_vars
    /\ UNCHANGED session_vars
    /\ UNCHANGED plan_vars

\* streamlit.py 179-210 and 78-98: the user submits a prompt with the e-mail
\* of the sidebar; the run gets the history plus the new human message.
\* The run is given the session's message list (84), which is the thread's
\* after a run that reached END and lacks the messages of a run that failed.
HandleChatInput ==
    /\ node = "idle"
    /\ Len(messages) < MaxHistory
    /\ st_messages = messages \/ Len(messages) <= MaxHistoryAfterFailure
    /\ \E e \in Emails : email' = Some(e)
    /\ st_messages' = Append(st_messages, HumanMessage)
    /\ messages' = add_messages(messages, st_messages')
    /\ UNCHANGED st_artifacts
    /\ node' = "__start__"
    /\ step' = 0
    /\ \E limit \in RecursionLimits : recursion_limit' = limit
    /\ response' = <<>>
    /\ tool_outcomes' = <<>>
    /\ paths' = {}
    /\ decision' = NoDecision
    /\ UNCHANGED <<artifacts, image_count, observed_limit, routed_finishing>>
    /\ UNCHANGED session_vars
    /\ UNCHANGED plan_vars

\* graph.py 399-406: the edge from START.
Start ==
    /\ node = "__start__"
    /\ Route("route_entry", route_entry(image_count), image_count, TRUE)
    /\ tool_outcomes' = <<>>
    /\ paths' = {}
    /\ UNCHANGED <<messages, email, artifacts, image_count, recursion_limit,
                   response>>

\* graph.py 394, 409-417: node call_model and its edge route_model_output.
CallModel ==
    /\ node = "call_model"
    /\ Len(messages) <= MaxHistory
    /\ \E calls \in ModelToolCalls :
         /\ response' = calls
         /\ messages' = add_messages(messages,
                            call_model(calls, Len(messages) + 1, is_last_step))
    /\ Route("route_model_output", route_model_output(messages', image_count),
             image_count, TRUE)
    /\ tool_outcomes' = <<>>
    /\ paths' = {}
    /\ UNCHANGED <<email, artifacts, image_count, recursion_limit>>

\* graph.py 395, 418-425: node tools and its edge route_after_tools.
Tools ==
    /\ node = "tools"
    /\ Len(messages) <= MaxHistory
    /\ \E outs \in BatchOutcomes(Last(messages).tool_calls) :
         LET new == custom_tool_node(messages, artifacts, image_count, outs)
         IN  /\ messages' = new.messages
             /\ artifacts' = new.artifacts
             /\ image_count' = new.image_count
             /\ tool_outcomes' = outs
             /\ paths' = custom_tool_paths(messages, email)
    /\ Route("route_after_tools", route_after_tools(image_count'),
             image_count', TRUE)
    /\ UNCHANGED <<email, recursion_limit, response>>

\* graph.py 396, 428-436: node call_finishing_model and its edge
\* route_finishing_model.
CallFinishingModel ==
    /\ node = "call_finishing_model"
    /\ Len(messages) <= MaxHistory
    /\ \E calls \in FinishingToolCalls :
         /\ response' = calls
         /\ messages' = add_messages(messages,
                 call_finishing_model(calls, Len(messages) + 1, is_last_step))
    /\ Route("route_finishing_model", route_finishing_model(messages'),
             image_count, FALSE)
    /\ tool_outcomes' = <<>>
    /\ paths' = {}
    /\ UNCHANGED <<email, artifacts, image_count, recursion_limit>>

\* graph.py 397, 439: node production_node and its edge to END.
ProductionNode ==
    /\ node = "production_node"
    /\ Len(messages) <= MaxHistory
    /\ \E out \in ProductionOutcomes :
         LET new == production_node(messages, artifacts, out)
         IN  /\ messages' = new.messages
             /\ artifacts' = new.artifacts
             /\ tool_outcomes' = <<out>>
             /\ paths' = production_paths(messages, email)
    /\ Route("production_edge", "__end__", image_count, FALSE)
    /\ UNCHANGED <<email, image_count, recursion_limit, response>>

\* graph.py 49-54 and 104-110: the call of the model raises; the node
\* writes nothing and the exception leaves ainvoke.
ModelCallFails ==
    /\ node \in {"call_model", "call_finishing_model"}
    /\ Len(messages) <= MaxHistory
    /\ node' = "failed"
    /\ response' = <<>>
    /\ tool_outcomes' = <<>>
    /\ paths' = {}
    /\ UNCHANGED <<messages, email, artifacts, image_count, step,
                   recursion_limit, decision, observed_limit,
                   routed_finishing>>
    /\ UNCHANGED st_vars
    /\ UNCHANGED session_vars
    /\ UNCHANGED plan_vars

\* streamlit.py 213-222 on what run_agent returns (97-105): the state of the
\* thread when the run reached END, the session's own lists when ainvoke
\* raised.
\* The mutation in which every artifact of the result is appended.
process_agent_result_extends_all(result, session_artifacts) ==
    [messages |-> result.messages,
     artifacts |-> session_artifacts \o result.artifacts]

process_agent_result(result, session_artifacts) ==
    [messages |-> result.messages,
     artifacts |->
        IF Len(result.artifacts) > Len(session_artifacts)
        THEN session_artifacts
                \o SubSeq(result.artifacts, Len(session_artifacts) + 1,
                          Len(result.artifacts))
        ELSE session_artifacts]

\* The mutation in which the session takes the state of the thread also when
\* the run failed.
run_agent_returns_thread_state(failed, thread, session) == thread

\* streamlit.py 97-105: the result of run_agent.
run_agent(failed, thread, session) == IF failed THEN session ELSE thread

ProcessAgentResult ==
    /\ node \in {"__end__", "out_of_steps", "failed"}
    /\ LET result == run_agent(node # "__end__",
                        [messages |-> messages, artifacts |-> artifacts],
                        [messages |-> st_messages, artifacts |-> st_artifacts])
           new == process_agent_result(result, st_artifacts)
       IN  /\ st_messages' = new.messages
           /\ st_artifacts' = new.artifacts
    /\ node' = "idle"
    /\ decision' = NoDecision
    /\ UNCHANGED <<messages, email, artifacts, image_count, step,
                   recursion_limit, response, tool_outcomes, paths,
                   observed_limit, routed_finishing>>
    /\ UNCHANGED session_vars
    /\ UNCHANGED plan_vars

\* streamlit.py 117-121 and graph.py 443-447: the clear-chat button empties
\* the session's lists and gives the session a new thread_id, for which the
\* checkpointer holds no state; the thread of the model is from then on the
\* new one.
ClearChatButton ==
    /\ node = "idle"
    /\ st_messages # <<>>
    /\ st_messages' = <<>>
    /\ st_artifacts' = <<>>
    /\ messages' = <<>>
    /\ artifacts' = <<>>
    /\ image_count' = 0
    /\ response' = <<>>
    /\ tool_outcomes' = <<>>
    /\ paths' = {}
    /\ decision' = NoDecision
    /\ observed_limit' = FALSE
    /\ routed_finishing' = FALSE
    /\ UNCHANGED <<email, node, step, recursion_limit>>
    /\ UNCHANGED session_vars
    /\ UNCHANGED plan_vars

Next ==
    \/ HandleChatInput
    \/ ModelCallFails
    \/ ProcessAgentResult
    \/ ClearChatButton
    \/ Start
    \/ CallModel
    \/ Tools
    \/ CallFinishingModel
    \/ ProductionNode

Spec == Init /\ [][Next]_vars

(***************************************************************************)
(* The sessions of the Streamlit server.  Each browser session has its own *)
(* st.session_state and one script thread; all sessions share the compiled *)
(* graph and its InMemorySaver (graph.py 443-447), keyed by thread_id.     *)
(***************************************************************************)
\* streamlit.py 37-46: the first script run of a session initialises its
\* state, with a new thread_id, and then waits at the widgets.
OpenSession(s) ==
    /\ sessions[s].script = "closed"
    /\ uuids < MaxUuids
    /\ sessions' = [sessions EXCEPT
                       ![s] = [script |-> "waiting",
                               thread_id |-> Some(uuid4(uuids))]]
    /\ uuids' = uuids + 1
    /\ UNCHANGED runs

\* streamlit.py 179-199 and 78-98: the user submits a prompt; the script
\* thread of the session enters asyncio.run(run_agent(...)), which starts a
\* graph run under the session's thread_id and blocks until it is over.
\* A session whose script is inside a run takes no other submission.
SubmitPrompt(s) ==
    /\ sessions[s].script = "waiting"
    /\ runs' = Append(runs, [session |-> s,
                             thread_id |-> sessions[s].thread_id])
    /\ sessions' = [sessions EXCEPT ![s].script = "in_run"]
    /\ UNCHANGED uuids

\* streamlit.py 97-105 and 199-210: ainvoke returns or raises, the result
\* is processed and the script reruns to the widgets.
RunReturns(s) ==
    /\ sessions[s].script = "in_run"
    /\ \E i \in 1..Len(runs) :
         /\ runs[i].session = s
         /\ runs' = SubSeq(runs, 1, i - 1) \o SubSeq(runs, i + 1, Len(runs))
    /\ sessions' = [sessions EXCEPT ![s].script = "waiting"]
    /\ UNCHANGED uuids

\* streamlit.py 117-121: the clear-chat button gives the session a new
\* thread_id.
ClearChat(s) ==
    /\ sessions[s].script = "waiting"
    /\ uuids < MaxUuids
    /\ sessions' = [sessions EXCEPT ![s].thread_id = Some(uuid4(uuids))]
    /\ uuids' = uuids + 1
    /\ UNCHANGED runs

SessionNext ==
    \/ \E s \in Sessions : OpenSession(s) /\ UNCHANGED graph_vars
          /\ UNCHANGED plan_vars
    \/ \E s \in Sessions : SubmitPrompt(s) /\ UNCHANGED graph_vars
          /\ UNCHANGED plan_vars
    \/ \E s \in Sessions : RunReturns(s) /\ UNCHANGED graph_vars
          /\ UNCHANGED plan_vars
    \/ \E s \in Sessions : ClearChat(s) /\ UNCHANGED graph_vars
          /\ UNCHANGED plan_vars

SessionSpec == Init /\ [][SessionNext]_vars

(***************************************************************************)
(* graph.py 56-77 and 113-141: the <Plan> block of a response body.  A     *)
(* body is a sequence of tokens: the two delimiters, a letter, a blank.    *)
(***************************************************************************)
Tokens == {"<Plan>", "</Plan>", "a", " "}

Bodies == UNION {[1..n -> Tokens] : n \in 0..MaxBodyLen}

\* str.strip()
RECURSIVE lstrip(_)
lstrip(str) ==
    IF str # <<>> /\ Head(str) = " " THEN lstrip(Tail(str)) ELSE str

RECURSIVE rstrip(_)
rstrip(str) ==
    IF str # <<>> /\ str[Len(str)] = " "
    THEN rstrip(SubSeq(str, 1, Len(str) - 1)) ELSE str

strip(str) == rstrip(lstrip(str))

\* Where token tok stands in str after position from; the empty set if
\* nowhere.
IndicesAfter(str, tok, from) == {i \in (from + 1)..Len(str) : str[i] = tok}

Least(S) == CHOOSE i \in S : \A j \in S : i <= j

\* re.search(r"<Plan>(.*?)</Plan>(.*)", content, re.DOTALL): the leftmost
\* <Plan> that has a </Plan> after it, the text up to the first such
\* </Plan>, and the rest.  None when there is no match.
re_search(str) ==
    LET opens == {i \in IndicesAfter(str, "<Plan>", 0) :
                     IndicesAfter(str, "</Plan>", i) # {}}
    IN  IF opens = {} THEN None
        ELSE LET open == Least(opens)
                 close == Least(IndicesAfter(str, "</Plan>", open))
             IN  Some([group1 |-> SubSeq(str, open + 1, close - 1),
                       group2 |-> SubSeq(str, close + 1, Len(str))])

\* The mutation in which the body is kept whole as the visible content.
clean_response_keeps_body(str) ==
    LET match == re_search(str)
    IN  IF match = None
        THEN [content |-> str, internal_plan |-> None]
        ELSE [content |-> str,
              internal_plan |-> Some(strip(match[1].group1))]

\* graph.py 56-77: content and response_metadata["internal_plan"] of
\* cleaned_response.
clean_response(str) ==
    LET match == re_search(str)
    IN  IF match = None
        THEN [content |-> str, internal_plan |-> None]
        ELSE [content |-> strip(match[1].group2),
              internal_plan |-> Some(strip(match[1].group1))]

PlanInit ==
    /\ body \in Bodies
    /\ cleaned = None
    /\ messages = <<>>
    /\ email = None
    /\ artifacts = <<>>
    /\ image_count = 0
    /\ node = "call_model"
    /\ step = 1
    /\ recursion_limit = RecursionLimit
    /\ response = <<>>
    /\ tool_outcomes = <<>>
    /\ paths = {}
    /\ decision = NoDecision
    /\ observed_limit = FALSE
    /\ routed_finishing = FALSE
    /\ sessions = [s \in Sessions |-> NoSession]
    /\ uuids = 0
    /\ runs = <<>>
    /\ st_messages = <<>>
    /\ st_artifacts = <<>>

\* The node post-processes the response it got.
CleanResponse ==
    /\ cleaned = None
    /\ cleaned' = Some(clean_response(body))
    /\ UNCHANGED <<body, graph_vars, session_vars>>

PlanNext == CleanResponse

PlanSpec == PlanInit /\ [][PlanNext]_vars

(***************************************************************************)
(* custom_tool_node as a function of the state: the node applied to any    *)
(* state, also to those no edge of the graph leads it to.                  *)
(***************************************************************************)
\* Histories the node is given: ending with a human message, an assistant
\* message without tool calls, a tool message, or an assistant message with
\* tool calls.
DispatcherHistories ==
    {add_messages(<<>>, <<HumanMessage>>),
     add_messages(<<>>, <<HumanMessage, AIMessage(TextContent, <<>>)>>),
     add_messages(<<>>, <<HumanMessage,
                          AIMessage(TextContent, WithIds(<<create_image(1)>>, 2)),
                          ToolMessage([kind |-> "path", n |-> 1], <<2, 1>>)>>),
     add_messages(<<>>, <<HumanMessage,
                          AIMessage(TextContent, WithIds(<<create_image(1)>>, 2))>>),
     add_messages(<<>>, <<HumanMessage,
                          AIMessage(TextContent, WithIds(<<foo>>, 2))>>)}

DispatcherArtifacts ==
    {<<>>, <<[type |-> "image", b64 |-> 1]>>,
     <<[type |-> "image", b64 |-> 1], [type |-> "image", b64 |-> MaxImageNumber]>>}

DispatcherInit ==
    /\ messages \in DispatcherHistories
    /\ email \in {None} \cup {Some(e) : e \in Emails}
    /\ artifacts \in DispatcherArtifacts
    /\ image_count \in 0..MaxImageNumber
    /\ node = "tools"
    /\ step = 1
    /\ recursion_limit = RecursionLimit
    /\ response = <<>>
    /\ tool_outcomes = <<>>
    /\ paths = {}
    /\ decision = NoDecision
    /\ observed_limit = FALSE
    /\ routed_finishing = FALSE
    /\ sessions = [s \in Sessions |-> NoSession]
    /\ uuids = 0
    /\ runs = <<>>
    /\ st_messages = <<>>
    /\ st_artifacts = <<>>
    /\ body = <<>>
    /\ cleaned = None

\* graph.py 157-249: the node runs on the state it is given.
Dispatch ==
    /\ node = "tools"
    /\ \E outs \in BatchOutcomes(Last(messages).tool_calls) :
         LET new == custom_tool_node(messages, artifacts, image_count, outs)
         IN  /\ messages' = new.messages
             /\ artifacts' = new.artifacts
             /\ image_count' = new.image_count
             /\ tool_outcomes' = outs
    /\ node' = "dispatched"
    /\ paths' = custom_tool_paths(messages, email)
    /\ UNCHANGED st_vars
    /\ UNCHANGED <<email, step, recursion_limit, response, decision,
                   observed_limit, routed_finishing>>
    /\ UNCHANGED session_vars
    /\ UNCHANGED plan_vars

DispatcherNext == Dispatch

DispatcherSpec == DispatcherInit /\ [][DispatcherNext]_vars

TypeOK ==
    /\ node \in {"idle", "__start__", "call_model", "tools",
                 "call_finishing_model", "production_node", "__end__",
                 "out_of_steps", "dispatched", "failed"}
    /\ recursion_limit \in RecursionLimits
    /\ step \in 0..(recursion_limit + 1)
    /\ image_count \in 0..MaxImageNumber
    /\ \A i \in 1..Len(messages) : messages[i].id = Some(i)
    /\ uuids \in 0..MaxUuids
    /\ \A s \in Sessions :
         /\ sessions[s].script \in {"closed", "waiting", "in_run"}
         /\ sessions[s].thread_id \in {None} \cup {Some(u) : u \in 1..MaxUuids}
    /\ Len(runs) <= MaxSessions

(***************************************************************************)
(* Properties.                                                             *)
(***************************************************************************)
ModelNodes == {"call_model", "call_finishing_model"}
IterationNodes == {"call_model", "tools"}

\* The step of the clear-chat button, which starts another conversation.
ClearStep == node = "idle" /\ node' = "idle"

\* C1: image_count after a step of a conversation is greater than or equal
\* to image_count before it, whatever sequence numbers the model gives
\* create_image.
C1_ImageCountNonDecreasing ==
    [][~ClearStep => image_count' >= image_count]_vars

\* C2: once route_entry, route_model_output or route_after_tools has
\* evaluated with image_count >= 3, no later router result and no later
\* node of the thread is call_model or tools, in this run or a later one.
C2_NoIterationAfterLimit ==
    observed_limit =>
        /\ node \notin IterationNodes
        /\ decision.to \notin IterationNodes

\* A later user turn of a thread that reached the limit in an earlier run
\* (its tool result is in the history) is routed by route_entry to the
\* finishing model.
C2_Witness ==
    /\ observed_limit
    /\ decision.router = "route_entry"
    /\ decision.to = "call_finishing_model"
    /\ node = "call_finishing_model"
    /\ \E i \in 1..Len(messages) : messages[i].type = "tool"

\* C3: once a router has routed the thread to call_finishing_model, for
\* whatever reason, no later node of the thread is call_model or tools.
C3_NoIterationAfterFinishing ==
    routed_finishing => node \notin IterationNodes

\* C4: the artifacts list never holds more than three artifacts.
C4_AtMostThreeArtifacts == Len(artifacts) <= ImageLimit

\* C5: a step of the tool dispatcher on an assistant message with N tool
\* calls appends exactly N tool messages, the i-th carrying the
\* tool_call_id of the i-th call.
C5_OneResultPerCall ==
    [][node = "tools" =>
        LET calls == Last(messages).tool_calls
            old == Len(messages)
        IN  /\ Len(messages') = old + Len(calls)
            /\ \A i \in 1..Len(calls) :
                 /\ messages'[old + i].type = "tool"
                 /\ messages'[old + i].tool_call_id = Some(calls[i].id)]_vars

\* C6: whenever a model node is about to run, the history ends with a
\* human message or a tool message.
C6_ModelInputEndsWithHumanOrTool ==
    node \in ModelNodes => Last(messages).type \in {"human", "tool"}

\* C7: a model node that runs with is_last_step set and gets a response
\* with tool calls appends one assistant message with the fallback text and
\* no tool calls, and its router then gives END, so the run stops there.
C7_LastStepFallback ==
    [][(node \in ModelNodes /\ is_last_step /\ response' # <<>>) =>
        /\ messages' = Append(messages,
              [AIMessage(FallbackContent, <<>>)
                  EXCEPT !.id = Some(Len(messages) + 1)])
        /\ decision'.to = "__end__"
        /\ node' = "__end__"]_vars

\* A run stopped at END by the fallback of the main model node: the raw
\* response asked for tools and the history ends with the fallback message.
C7_Witness ==
    /\ node = "__end__"
    /\ decision.router = "route_model_output"
    /\ response # <<>>
    /\ Last(messages).content = FallbackContent
    /\ Last(messages).tool_calls = <<>>

\* C8: every run reaches END; no run is stopped anywhere else.
C8_RunStopsAtEnd == node # "out_of_steps"

\* C9: when a run has reached END the history ends with an assistant
\* message without tool calls, and every tool call of an assistant message
\* of that run has a tool message that answers it.
RunStart ==
    CHOOSE i \in 1..Len(messages) :
        /\ messages[i].type = "human"
        /\ \A j \in (i + 1)..Len(messages) : messages[j].type # "human"

Answered(call_id) ==
    \E j \in 1..Len(messages) :
        messages[j].type = "tool" /\ messages[j].tool_call_id = Some(call_id)

C9_EndsWithAssistantText ==
    node = "__end__" =>
        /\ Last(messages).type = "ai"
        /\ Last(messages).tool_calls = <<>>
        /\ \A i \in RunStart..Len(messages) :
             \A k \in 1..Len(messages[i].tool_calls) :
                 Answered(messages[i].tool_calls[k].id)

\* C10: route_model_output follows the table: no tool calls -> END; else
\* image_count >= 3 -> FINISHING; else finalize_design among the tool calls,
\* at any position -> FINISHING; otherwise -> TOOLS.
IdeateTable(last_message, count) ==
    IF last_message.tool_calls = <<>> THEN "__end__"
    ELSE IF count >= ImageLimit THEN "call_finishing_model"
    ELSE IF \E k \in 1..Len(last_message.tool_calls) :
                last_message.tool_calls[k].name = "finalize_design"
    THEN "call_finishing_model"
    ELSE "tools"

C10_ModelOutputTable ==
    decision.router = "route_model_output" =>
        decision.to = IdeateTable(Last(messages), decision.count)

\* C11: route_finishing_model follows the table: no tool calls -> END; the
\* production call execute_production_file -> PRODUCTION; any other tool
\* call -> FINISHING.  The call that decides is the first of the message,
\* the only one production_node executes.  production_node is entered from
\* route_finishing_model alone and its edge always gives END.
FinishingTable(last_message) ==
    IF last_message.tool_calls = <<>> THEN "__end__"
    ELSE IF last_message.tool_calls[1].name = "execute_production_file"
    THEN "production_node"
    ELSE "call_finishing_model"

SingleCreateImage(msg, n) ==
    /\ Len(msg.tool_calls) = 1
    /\ msg.tool_calls[1].name = "create_image"
    /\ msg.tool_calls[1].args = Some(n)

C12_Step ==
    node \in {"__start__", "tools"} =>
        /\ decision'.to = IF image_count' >= ImageLimit
                          THEN "call_finishing_model" ELSE "call_model"
        /\ (node = "tools" /\ image_count = ImageLimit - 1
                /\ SingleCreateImage(Last(messages), ImageLimit)) =>
             (image_count' = ImageLimit /\ decision'.to = "call_finishing_model")
        /\ (node = "tools" /\ image_count = 0 /\ artifacts = <<>>
                /\ SingleCreateImage(Last(messages), 1)
                /\ tool_outcomes'[1].run = "ok" /\ tool_outcomes'[1].readable) =>
             (image_count' = 1 /\ Len(artifacts') = 1
                /\ decision'.to = "call_model")

C12_LimitRecheck == [][C12_Step]_vars

\* The thread had image_count = 2 (design 2 is in the history), the model
\* asked for create_image with number 3, and route_after_tools gave
\* FINISHING.
C12_Witness ==
    /\ decision.router = "route_after_tools"
    /\ decision.to = "call_finishing_model"
    /\ image_count = ImageLimit
    /\ Last(messages).type = "tool"
    /\ Last(messages).content = [kind |-> "path", n |-> ImageLimit]
    /\ \E i \in 1..Len(messages) :
         /\ messages[i].type = "tool"
         /\ messages[i].content = [kind |-> "path", n |-> ImageLimit - 1]
    /\ \A i \in 1..Len(messages) :
         messages[i].type = "ai" => Len(messages[i].tool_calls) <= 1

\* C13: every file path handed to a tool or helper lies directly under
\* images/<user identity>/, whatever arguments the model supplies.
RECURSIVE normpath(_, _)
normpath(path, acc) ==
    IF path = <<>> THEN acc
    ELSE IF Head(path) = ".."
    THEN normpath(Tail(path),
                  IF acc = <<>> THEN acc ELSE SubSeq(acc, 1, Len(acc) - 1))
    ELSE normpath(Tail(path), Append(acc, Head(path)))

DirectlyUnder(path, dir) ==
    /\ Len(normpath(path, <<>>)) = Len(dir) + 1
    /\ SubSeq(normpath(path, <<>>), 1, Len(dir)) = dir

C13_PathsInNamespace ==
    \A path \in paths : DirectlyUnder(path, base_path(email))

Batch == Last(messages).tool_calls
Appended == (Len(messages) + 1)..Len(messages')

\* The appended message that answers call i of the batch has content kind k.
AnsweredWith(i, k) ==
    \E j \in Appended :
        /\ messages'[j].type = "tool"
        /\ messages'[j].tool_call_id = Some(Batch[i].id)
        /\ messages'[j].content.kind = k

AnsweredNow(i) ==
    \E j \in Appended :
        /\ messages'[j].type = "tool"
        /\ messages'[j].tool_call_id = Some(Batch[i].id)

\* The position in the batch of the call that tool message m answers.
CallIndex(m) == m.tool_call_id[1][2]

\* The last assistant message of the history, for states after the step.
LastAI ==
    messages[CHOOSE i \in 1..Len(messages) :
                /\ messages[i].type = "ai"
                /\ \A j \in (i + 1)..Len(messages) : messages[j].type # "ai"]

AfterToolsStep ==
    /\ decision.router = "route_after_tools"
    /\ tool_outcomes # <<>>

\* C15: a tool call whose name is not in the registry (foo) gets one error
\* tool message "Error: Tool 'foo' not found." with its call id, and artifacts
\* and image_count stay as they were for that call.
C15_Step ==
    node = "tools" =>
        \A i \in 1..Len(Batch) :
            Batch[i].name \notin TOOLS => AnsweredWith(i, "not_found")

C15_UnknownToolNotFound == [][C15_Step]_vars

\* C16: when a tool call of a batch raises, that call gets an error tool
\* message and every other call of the batch is still executed and answered.
C16_Step ==
    node = "tools" =>
        \A i \in 1..Len(Batch) :
            (/\ Batch[i].name \in {"create_image", "create_image_prompt"}
             /\ tool_outcomes'[i].run = "raise") =>
                /\ AnsweredWith(i, "error_executing")
                /\ \A k \in 1..Len(Batch) : AnsweredNow(k)

C16_SiblingsAnswered == [][C16_Step]_vars

\* C17: the step keeps what was there and appends tool messages and
\* artifacts in the order of the calls of the batch.
C17_Step ==
    node = "tools" =>
        LET old == Len(artifacts)
            added == Len(artifacts') - old
        IN  /\ Len(messages') >= Len(messages)
            /\ SubSeq(messages', 1, Len(messages)) = messages
            /\ \A j \in Appended : messages'[j].type = "tool"
            /\ \A j, k \in Appended :
                 j < k => CallIndex(messages'[j]) < CallIndex(messages'[k])
            /\ added >= 0
            /\ SubSeq(artifacts', 1, old) = artifacts
            /\ \E f \in [1..added -> 1..Len(Batch)] :
                 /\ \A a, b \in 1..added : a < b => f[a] < f[b]
                 /\ \A a \in 1..added :
                      /\ Batch[f[a]].name = "create_image"
                      /\ artifacts'[old + a].b64 = image_number_of(Batch[f[a]])

C17_CallOrder == [][C17_Step]_vars

\* The batch [create_image(MaxImageNumber), create_image(1)] ran: two tool
\* messages and two artifacts, in that order.
C17_Witness ==
    /\ AfterToolsStep
    /\ Len(LastAI.tool_calls) = 2
    /\ Len(messages) >= 2
    /\ messages[Len(messages) - 1].content = [kind |-> "path", n |-> MaxImageNumber]
    /\ messages[Len(messages)].content = [kind |-> "path", n |-> 1]
    /\ Len(artifacts) >= 2
    /\ artifacts[Len(artifacts) - 1].b64 = MaxImageNumber
    /\ artifacts[Len(artifacts)].b64 = 1

\* C18: after the step image_count is the number given in the last
\* create_image call of the batch, and is unchanged without such a call.
C18_Step ==
    node = "tools" =>
        LET made == {i \in 1..Len(Batch) : Batch[i].name = "create_image"}
        IN  IF made = {}
            THEN image_count' = image_count
            ELSE \E i \in made :
                   /\ \A k \in made : k <= i
                   /\ image_count' = image_number_of(Batch[i])

C18_CountIsLastNumber == [][C18_Step]_vars

\* The batch [create_image(MaxImageNumber), create_image(1)] ran and left
\* image_count = 1.
C18_Witness ==
    /\ AfterToolsStep
    /\ Len(LastAI.tool_calls) = 2
    /\ LastAI.tool_calls[1].name = "create_image"
    /\ LastAI.tool_calls[1].args = Some(MaxImageNumber)
    /\ LastAI.tool_calls[2].name = "create_image"
    /\ LastAI.tool_calls[2].args = Some(1)
    /\ image_count = 1

\* C19: a create_image call that succeeds is answered with the public URL
\* when the upload succeeds and with the local path when it does not.
C19_Step ==
    node = "tools" =>
        \A i \in 1..Len(Batch) :
            (Batch[i].name = "create_image" /\ tool_outcomes'[i].run = "ok") =>
                AnsweredWith(i, IF tool_outcomes'[i].upload = "url"
                                THEN "url" ELSE "path")

C19_UrlOnUpload == [][C19_Step]_vars

\* C20: every step of a conversation leaves the old artifacts as a prefix of
\* the new list; in
\* a dispatcher step each create_image whose file is read adds one artifact,
\* and one whose file cannot be read adds none and is answered as usual.
C20_Step ==
    /\ ~ClearStep =>
          /\ Len(artifacts') >= Len(artifacts)
          /\ SubSeq(artifacts', 1, Len(artifacts)) = artifacts
    /\ node = "tools" =>
         /\ Len(artifacts') - Len(artifacts) =
              Cardinality({i \in 1..Len(Batch) :
                              /\ Batch[i].name = "create_image"
                              /\ tool_outcomes'[i].run = "ok"
                              /\ tool_outcomes'[i].readable})
         /\ \A i \in 1..Len(Batch) :
              (/\ Batch[i].name = "create_image"
               /\ tool_outcomes'[i].run = "ok"
               /\ ~tool_outcomes'[i].readable) => AnsweredWith(i, "path")

C20_ArtifactsAccumulate == [][C20_Step]_vars

\* An artifact was there, and a create_image call whose file could not be
\* read was answered with its path without adding one.
C20_Witness ==
    /\ AfterToolsStep
    /\ Len(LastAI.tool_calls) = 1
    /\ LastAI.tool_calls[1].name = "create_image"
    /\ tool_outcomes[1].run = "ok"
    /\ ~tool_outcomes[1].readable
    /\ Last(messages).content.kind = "path"
    /\ Len(artifacts) = 1

\* C21: for a convert_black_to_transparent call of the model the dispatcher
\* hands the tool the input and output path rewritten to
\* images/<user>/<basename>.
C21_Step ==
    node = "tools" =>
        \A i \in 1..Len(Batch) :
            Batch[i].name = "convert_black_to_transparent" =>
                /\ AnsweredNow(i)
                /\ sandboxed(Batch[i].strs[1], email) \in paths'
                /\ sandboxed(Batch[i].strs[2], email) \in paths'

C21_ConvertPathsSandboxed == [][C21_Step]_vars

(***************************************************************************)
(* The production step: production_node taking the first tool call of the  *)
(* last assistant message.                                                 *)
(***************************************************************************)
ProductionCall == Last(messages).tool_calls[1]

\* The step appended exactly one tool message, for the production call.
OneProductionResult ==
    /\ Len(messages') = Len(messages) + 1
    /\ SubSeq(messages', 1, Len(messages)) = messages
    /\ Last(messages').type = "tool"
    /\ Last(messages').tool_call_id = Some(ProductionCall.id)

\* C22: a production call without design_number gets one error tool message,
\* nothing is converted or uploaded, and the next model that runs in the
\* conversation is the finishing model.
C22_Step ==
    /\ (node = "production_node" /\ ProductionCall.args = None) =>
          /\ OneProductionResult
          /\ Last(messages').content.kind = "error_design_number_missing"
          /\ paths' = {}
    /\ (/\ node = "__start__"
        /\ Len(messages) >= 2
        /\ messages[Len(messages) - 1].content.kind
              = "error_design_number_missing") =>
          decision'.to = "call_finishing_model"

C22_MissingDesignNumber == [][C22_Step]_vars

\* C23: every run of the production node appends exactly one tool message
\* with the id of the production call: the public URL when the conversion
\* and the upload both succeed, an error text otherwise (also when the
\* upload returns no URL); artifacts and image_count stay and the run ends.
ProductionErrors ==
    {"error_design_number_missing", "error_convert", "error_upload",
     "error_no_public_url"}

C23_Step ==
    node = "production_node" =>
        LET out == tool_outcomes'[1]
            succeeded == /\ ProductionCall.args # None
                         /\ out.convert = "ok"
                         /\ out.upload = "url"
        IN  /\ OneProductionResult
            /\ succeeded => Last(messages').content.kind = "url"
            /\ ~succeeded => Last(messages').content.kind \in ProductionErrors
            /\ artifacts' = artifacts
            /\ image_count' = image_count
            /\ node' = "__end__"

C23_ProductionResult == [][C23_Step]_vars

\* A production run whose upload returned no URL ended with the error text.
C23_Witness ==
    /\ decision.router = "production_edge"
    /\ node = "__end__"
    /\ tool_outcomes = <<[convert |-> "ok", upload |-> "none"]>>
    /\ Last(messages).content.kind = "error_no_public_url"

\* C24: when the last message is not an assistant message or carries no
\* tool calls, the dispatcher leaves messages, artifacts, image_count and
\* the user identity as they are.
C24_Step ==
    (node = "tools"
        /\ (Last(messages).type # "ai" \/ Last(messages).tool_calls = <<>>)) =>
            /\ messages' = messages
            /\ artifacts' = artifacts
            /\ image_count' = image_count
            /\ email' = email

C24_PassThrough == [][C24_Step]_vars

\* The dispatcher ran on a history that ends with a human message, with
\* artifacts and a count to lose.
C24_Witness ==
    /\ node = "dispatched"
    /\ Last(messages).type = "human"
    /\ Len(artifacts) = 2
    /\ image_count = MaxImageNumber

\* The block of a body: it has one when a <Plan> is followed by a </Plan>;
\* it lies between the first <Plan> and the first </Plan> after it.
HasBlock(str) ==
    \E i, j \in 1..Len(str) : i < j /\ str[i] = "<Plan>" /\ str[j] = "</Plan>"

BlockOpen(str) == Least(IndicesAfter(str, "<Plan>", 0))
BlockClose(str) == Least(IndicesAfter(str, "</Plan>", BlockOpen(str)))
BlockContent(str) == SubSeq(str, BlockOpen(str) + 1, BlockClose(str) - 1)
AfterBlock(str) == SubSeq(str, BlockClose(str) + 1, Len(str))

\* C25, as amended: a body with a block yields the trimmed text after the
\* closing delimiter as visible content and the trimmed block content as
\* internal_plan, whether or not the two are the same text; a body without a
\* block is kept whole with no internal_plan.
C25_PlanSplit ==
    cleaned # None =>
        IF HasBlock(body)
        THEN /\ cleaned[1].content = strip(AfterBlock(body))
             /\ cleaned[1].internal_plan = Some(strip(BlockContent(body)))
        ELSE /\ cleaned[1].content = body
             /\ cleaned[1].internal_plan = None

\* A body with text before the block, a plan and visible text was split.
C25_Witness ==
    /\ body = <<"a", "<Plan>", " ", "</Plan>", "a">>
    /\ cleaned = Some([content |-> <<"a">>, internal_plan |-> Some(<<>>)])

\* C25, as stated: in addition, the stored plan is never equal to the
\* visible content unless the block was empty.
C25_PlanNeverEqualsContent ==
    (cleaned # None /\ HasBlock(body)) =>
        /\ cleaned[1].content = strip(AfterBlock(body))
        /\ (cleaned[1].internal_plan = Some(cleaned[1].content)
               => strip(BlockContent(body)) = <<>>)

\* C26: call_model runs only in states with image_count < 3, so
\* route_model_output never reads an image_count of 3 or more.
C26_MainModelBelowLimit ==
    /\ node = "call_model" => image_count < ImageLimit
    /\ decision.router = "route_model_output" => decision.count < ImageLimit

\* call_model is about to run again after a tools step that left the count
\* one below the limit.
C26_Witness ==
    /\ node = "call_model"
    /\ decision.router = "route_after_tools"
    /\ image_count = ImageLimit - 1

\* C27: the model nodes append exactly one assistant message and leave
\* artifacts, image_count and email; the production node leaves artifacts
\* and image_count; only the dispatcher changes either of the two.
C27_Step ==
    /\ (node \in ModelNodes /\ node' # "failed") =>
          /\ Len(messages') = Len(messages) + 1
          /\ SubSeq(messages', 1, Len(messages)) = messages
          /\ Last(messages').type = "ai"
          /\ email' = email
    /\ (node # "tools" /\ ~ClearStep) =>
          /\ artifacts' = artifacts
          /\ image_count' = image_count

C27_OnlyDispatcherWrites == [][C27_Step]_vars

\* The production node ran in a thread that holds artifacts and a count.
C27_Witness ==
    /\ decision.router = "production_edge"
    /\ Len(artifacts) >= 1
    /\ image_count >= ImageLimit
    /\ Last(messages).type = "tool"

\* C28: the file the production node converts for design number k is the
\* image of the conversation's one create_image call with number k and is
\* the k-th artifact shown to the user.
DesignResults(k) ==
    {i \in 1..Len(messages) :
        /\ messages[i].type = "tool"
        /\ messages[i].content = [kind |-> "path", n |-> k]}

\* Every image the conversation produced was read back into an artifact.
AllDesignsShown ==
    Len(artifacts) = Cardinality(UNION {DesignResults(k) : k \in ImageNumbers})

C28_Step ==
    (/\ node = "production_node"
     /\ ProductionCall.args # None
     /\ DesignResults(ProductionCall.args[1]) # {}
     /\ AllDesignsShown) =>
        LET k == ProductionCall.args[1]
        IN  /\ local_input_path(ProductionCall, email) =
                  join(base_path(email), <<"design-" \o ToString(k) \o ".png">>)
            /\ Cardinality(DesignResults(k)) = 1
            /\ Len(artifacts) >= k
            /\ artifacts[k].b64 = k

C28_DesignFileIsKthArtifact == [][C28_Step]_vars

\* C29: when the result of a run that reached END has been processed, the
\* session's artifacts are the artifacts of the thread, in the same order
\* and none twice; the clear-chat button empties the session's lists and
\* the next run starts a thread with image_count 0 and no artifacts.
C29_Step ==
    /\ (node = "__end__" /\ node' = "idle") =>
          /\ st_artifacts' = artifacts
          /\ st_messages' = messages
    /\ ClearStep =>
          /\ st_messages' = <<>>
          /\ st_artifacts' = <<>>
    /\ (node = "idle" /\ node' = "__start__" /\ st_messages = <<>>) =>
          /\ image_count' = 0
          /\ artifacts' = <<>>
          /\ Len(messages') = 1

C29_SessionFollowsThread == [][C29_Step]_vars

\* Two turns with images were completed and the session shows both.
C29_Witness ==
    /\ node = "idle"
    /\ Len(st_artifacts) >= 2
    /\ st_artifacts = artifacts
    /\ st_messages = messages

\* C30: when a run fails, the session keeps its message list, with the human
\* message just submitted, and its artifact list as they were before the
\* run; no assistant or tool message of the failed run is added.  A model
\* call that raises ends the run: the node adds no message.
C30_Step ==
    /\ (node \in {"failed", "out_of_steps"} /\ node' = "idle") =>
          /\ st_messages' = st_messages
          /\ st_artifacts' = st_artifacts
          /\ Last(st_messages').type = "human"
    /\ node' = "failed" =>
          /\ node \in ModelNodes
          /\ messages' = messages
          /\ artifacts' = artifacts
    /\ node = "failed" => node' = "idle"

C30_FailedRunKeepsSession == [][C30_Step]_vars

\* A run failed after its tools step had written an artifact and messages
\* to the thread; the session shows none of them.
C30_Witness ==
    /\ node = "idle"
    /\ st_messages # <<>>
    /\ Last(st_messages).type = "human"
    /\ Len(messages) > Len(st_messages)
    /\ Len(artifacts) > Len(st_artifacts)
    /\ Last(messages).type = "tool"

====
